---- MODULE Spec2Model ----
(***************************************************************************)
(* Alt-text MCP servers of mcp-servers/alt-text-generator.                 *)
(*                                                                         *)
(*   simple_server.py  the minimal server: SimpleAltTextServer and the     *)
(*                     line-by-line read loop main()                       *)
(*   server.py         the full server: AltTextGenerator and the handlers  *)
(*                     registered with the mcp library                     *)
(*                                                                         *)
(* Spec          is main() of simple_server.py reading lines from stdin.   *)
(* SpecHandlers  is the handlers of both variants called request by        *)
(*               request, over every shape of request.                     *)
(***************************************************************************)
EXTENDS Integers, Sequences, FiniteSets, TLC

VARIABLES
    tools,      \* SimpleAltTextServer.tools, the minimal variant's registry
    pc,         \* main(): "read" at the input() call, "done" once main returned
    exit,       \* how main() ended: "none", "eof", "interrupt", "crash"
    stdin,      \* the lines input() has returned so far
    stdout,     \* the lines print() has written so far
    replies,    \* replies[i]: the lines written while stdin[i] was processed
    log,        \* the logger.error calls made so far
    message,    \* SpecHandlers: the request handed to handle_message
    response,   \* SpecHandlers: what handle_message did with it
    call,       \* SpecHandlers: the request handed to the full variant
    result,     \* SpecHandlers: what the full variant's handler did with it
    invoked     \* SpecHandlers: the tool handlers that ran for the request

vars == <<tools, pc, exit, stdin, stdout, replies, log, message, response, call, result, invoked>>

loopVars    == <<pc, exit, stdin, stdout, replies, log>>
handlerVars == <<message, response, call, result, invoked>>

(***************************************************************************)
(* JSON values as Python holds them after json.loads.  Every value carries *)
(* its type as its only field name; a dict is a function from its keys.    *)
(***************************************************************************)
None       == [null |-> TRUE]
JStr(s)    == [str |-> s]
JRun(c, n) == [run |-> <<c, n>>]     \* the str c * n, too long to be written out
JInt(n)    == [int |-> n]
JList(xs)  == [list |-> xs]
JObj(d)    == [obj |-> d]
EmptyDict  == <<>>

IsDict(v)  == "obj" \in DOMAIN v
IsStr(v)   == "str" \in DOMAIN v
IsRun(v)   == "run" \in DOMAIN v

\* dict.get(key, default) on a value known to be a dict
Get(v, key, default) == IF key \in DOMAIN v.obj THEN v.obj[key] ELSE default

\* What a Python call does: it returns a value or raises an exception.
Return(v)  == [return |-> v]
Raise(e)   == [raise |-> e]
Raised(o)  == "raise" \in DOMAIN o
Returned(o) == "return" \in DOMAIN o

\* str(x) as an f-string formats it
Str(v) ==
    IF IsStr(v) THEN v.str
    ELSE IF v = None THEN "None"
    ELSE IF "int" \in DOMAIN v THEN ToString(v.int)
    ELSE "<object>"

(***************************************************************************)
(* str.lower() and the `in` substring test, character by character.        *)
(***************************************************************************)
UpperChars == "ABCDEFGHIJKLMNOPQRSTUVWXYZ"
LowerChars == "abcdefghijklmnopqrstuvwxyz"

CharAt(s, i) == SubSeq(s, i, i)

LowerChar(c) ==
    IF \E i \in 1..26 : CharAt(UpperChars, i) = c
    THEN CharAt(LowerChars, CHOOSE i \in 1..26 : CharAt(UpperChars, i) = c)
    ELSE c

RECURSIVE Lower(_)
Lower(s) == IF Len(s) = 0 THEN "" ELSE LowerChar(CharAt(s, 1)) \o Lower(SubSeq(s, 2, Len(s)))

Contains(sub, s) ==
    \E i \in 1..(Len(s) - Len(sub) + 1) : SubSeq(s, i, i + Len(sub) - 1) = sub

(***************************************************************************)
(* simple_server.py: SimpleAltTextServer                                   *)
(***************************************************************************)
\* __init__: the registry of the minimal variant
SimpleTools ==
    << [ name        |-> "generate_alt_text",
         description |-> "Generate descriptive alt text options for images",
         inputSchema |-> [ type       |-> "object",
                           properties |-> {"image_data", "context"},
                           required   |-> {"image_data"} ] ] >>

\* confidence is held in hundredths (0.85 is 85)
Suggestion(type, text, length, confidence) ==
    [type |-> type, text |-> text, length |-> length, confidence |-> confidence]

ProductSuggestions ==
    << Suggestion("brief", "Product image showing key features", 35, 85),
       Suggestion("moderate",
                  "Detailed product photo highlighting main functionality and design", 65, 90),
       Suggestion("detailed",
                  "High-quality product photograph showcasing design, features, and build quality in professional lighting setup",
                  115, 88) >>

GenericSuggestions ==
    << Suggestion("brief", "Descriptive image relevant to page content", 42, 80),
       Suggestion("moderate",
                  "Detailed visual content supporting the main page topic and user context", 75, 85),
       Suggestion("detailed",
                  "Comprehensive visual description including key elements, composition, and contextual relevance to surrounding content",
                  125, 82) >>

SimpleAccessibilityAnalysis ==
    [ is_decorative |-> FALSE, contains_text |-> FALSE,
      complexity_level |-> "moderate", recommended_approach |-> "descriptive" ]

\* SimpleAltTextServer.generate_alt_text(arguments)
generate_alt_text(arguments) ==
    IF ~IsDict(arguments) THEN Raise("AttributeError")           \* arguments.get
    ELSE
    LET context == Get(arguments, "context", JObj(EmptyDict)) IN
    IF ~IsDict(context) THEN Raise("AttributeError")             \* context.get
    ELSE
    LET page_title == Get(context, "page_title", JStr(""))
        page_topic == Get(context, "page_topic", JStr("general"))
    IN
    IF ~IsStr(page_title) THEN Raise("AttributeError")           \* page_title.lower
    ELSE
    LET suggestions ==
            IF Contains("product", Lower(page_title.str)) \/ page_topic = JStr("ecommerce")
            THEN ProductSuggestions
            ELSE GenericSuggestions
    IN Return([ success                |-> TRUE,
                alt_suggestions        |-> suggestions,
                accessibility_analysis |-> SimpleAccessibilityAnalysis,
                context_used           |-> context ])

\* json.dumps(x): the text that encodes x
JsonDumps(x) == [json |-> x]

InitializeResult ==
    [ protocolVersion |-> "2024-11-05",
      capabilities    |-> [tools |-> [listChanged |-> FALSE]],
      serverInfo      |-> [name |-> "alt-text-generator", version |-> "1.0.0"] ]

\* the default error response, were its message not to name the method
MethodNotFoundGeneric(msg_id, method) ==
    [ jsonrpc |-> "2.0", id |-> msg_id,
      error   |-> [code |-> -32601, message |-> "Method not found"] ]

\* the default error response, were it not to carry the id
MethodNotFoundNoId(msg_id, method) ==
    [ jsonrpc |-> "2.0",
      error   |-> [code |-> -32601, message |-> "Method not found: " \o Str(method)] ]

\* lines 82-90: the default error response
MethodNotFound(msg_id, method) ==
    [ jsonrpc |-> "2.0", id |-> msg_id,
      error   |-> [code |-> -32601, message |-> "Method not found: " \o Str(method)] ]

\* SimpleAltTextServer.handle_message(message), self.tools being `registry`
handle_message(registry, msg) ==
    IF ~IsDict(msg) THEN Raise("AttributeError")                 \* message.get
    ELSE
    LET method == Get(msg, "method", None)
        msg_id == Get(msg, "id", None)
    IN
    IF method = JStr("initialize")
    THEN Return([jsonrpc |-> "2.0", id |-> msg_id, result |-> InitializeResult])
    ELSE IF method = JStr("tools/list")
    THEN Return([jsonrpc |-> "2.0", id |-> msg_id, result |-> [tools |-> registry]])
    ELSE IF method = JStr("tools/call")
    THEN LET params == Get(msg, "params", JObj(EmptyDict)) IN
         IF ~IsDict(params) THEN Raise("AttributeError")         \* params.get
         ELSE
         LET tool_name == Get(params, "name", None)
             arguments == Get(params, "arguments", JObj(EmptyDict))
         IN
         IF tool_name = JStr("generate_alt_text")
         THEN LET r == generate_alt_text(arguments) IN
              IF Raised(r) THEN r
              ELSE Return([ jsonrpc |-> "2.0", id |-> msg_id,
                            result  |-> [content |->
                                << [type |-> "text", text |-> JsonDumps(r.return)] >>] ])
         ELSE Return(MethodNotFound(msg_id, method))
    ELSE Return(MethodNotFound(msg_id, method))

\* the tool handlers handle_message awaits while it handles msg (lines 62-68)
InvokedBySimple(msg) ==
    IF /\ IsDict(msg)
       /\ Get(msg, "method", None) = JStr("tools/call")
       /\ IsDict(Get(msg, "params", JObj(EmptyDict)))
       /\ Get(Get(msg, "params", JObj(EmptyDict)), "name", None) = JStr("generate_alt_text")
    THEN {"generate_alt_text"}
    ELSE {}

(***************************************************************************)
(* server.py: AltTextGenerator                                             *)
(***************************************************************************)
\* bool(x) of a JSON value
Truthy(v) ==
    IF v = None THEN FALSE
    ELSE IF IsStr(v) THEN Len(v.str) > 0
    ELSE IF IsRun(v) THEN v.run[2] > 0
    ELSE IF "int" \in DOMAIN v THEN v.int # 0
    ELSE IF "list" \in DOMAIN v THEN Len(v.list) > 0
    ELSE DOMAIN v.obj # {}

\* __init__: self.supported_formats
supported_formats == <<"jpeg", "jpg", "png", "gif", "webp">>

\* the 5MB limit of _process_image_url and _process_base64_image
MaxImageBytes == 5 * 1024 * 1024

StartsWith(s, prefix) == Len(s) >= Len(prefix) /\ SubSeq(s, 1, Len(prefix)) = prefix

\* _process_image_url, were the 5MB limit not applied
ProcessImageUrlAnySize(url, net) ==
    IF "error" \in DOMAIN net THEN None
    ELSE IF ~\E i \in 1..Len(supported_formats) : Contains(supported_formats[i], net.content_type)
    THEN None
    ELSE JStr(IF net.size = 0 THEN "" ELSE "<base64 of the content>")

\* AltTextGenerator._process_image_url(url): `net` is what the GET does, "error"
\* (no connection, timeout, a 4xx or 5xx status) or the response received.
\* base64.b64encode(content) is held by its length.
process_image_url(url, net) ==
    IF "error" \in DOMAIN net THEN None
    ELSE IF ~\E i \in 1..Len(supported_formats) : Contains(supported_formats[i], net.content_type)
    THEN None
    ELSE IF net.size > MaxImageBytes THEN None
    ELSE JStr(IF net.size = 0 THEN "" ELSE "<base64 of the content>")

Base64Alphabet == "ABCDEFGHIJKLMNOPQRSTUVWXYZabcdefghijklmnopqrstuvwxyz0123456789+/"

IsBase64Char(c) == \E i \in 1..64 : CharAt(Base64Alphabet, i) = c

\* base64.b64decode(s), not strict: characters outside the alphabet are skipped,
\* padding that completes a quad ends the data, and a quad left open is an error.
\* Yields the number of bytes decoded, or -1 for binascii.Error.
RECURSIVE B64Scan(_, _, _, _, _)
B64Scan(s, i, quad, pads, nbytes) ==
    IF i > Len(s) THEN (IF quad = 0 THEN nbytes ELSE -1)
    ELSE LET c == CharAt(s, i) IN
         IF c = "="
         THEN IF quad >= 2 /\ quad + pads + 1 >= 4
              THEN nbytes
              ELSE B64Scan(s, i + 1, quad, IF quad >= 2 THEN pads + 1 ELSE pads, nbytes)
         ELSE IF ~IsBase64Char(c) THEN B64Scan(s, i + 1, quad, pads, nbytes)
         ELSE B64Scan(s, i + 1, (quad + 1) % 4, 0, IF quad = 0 THEN nbytes ELSE nbytes + 1)

B64DecodedLen(s) == B64Scan(s, 1, 0, 0, 0)

\* the same for the str c * n: n data characters are n / 4 whole quads of 3 bytes
\* each, and an open quad is an error; other characters are skipped
B64DecodedLenOfRun(c, n) ==
    IF ~IsBase64Char(c) THEN 0
    ELSE IF n % 4 = 0 THEN 3 * (n \div 4)
    ELSE -1

\* s.split(',')[1]: what lies between the first and the second comma; "none"
\* (IndexError) when s has no comma
RECURSIVE UpToComma(_)
UpToComma(s) ==
    IF Len(s) = 0 \/ CharAt(s, 1) = "," THEN ""
    ELSE CharAt(s, 1) \o UpToComma(SubSeq(s, 2, Len(s)))

AfterFirstComma(s) ==
    LET n == Len(UpToComma(s)) IN
    IF n = Len(s) THEN Raise("IndexError")
    ELSE Return(UpToComma(SubSeq(s, n + 2, Len(s))))

\* AltTextGenerator._process_base64_image(base64_data)
process_base64_image(base64_data) ==
    LET stripped == IF IsRun(base64_data) THEN Return(base64_data)     \* no "data:" prefix
                    ELSE IF StartsWith(base64_data.str, "data:")
                    THEN LET part == AfterFirstComma(base64_data.str) IN
                         IF Raised(part) THEN part ELSE Return(JStr(part.return))
                    ELSE Return(base64_data)
        decoded  == IF Raised(stripped) THEN -1
                    ELSE IF IsRun(stripped.return)
                    THEN B64DecodedLenOfRun(stripped.return.run[1], stripped.return.run[2])
                    ELSE B64DecodedLen(stripped.return.str)
    IN
    IF Raised(stripped) THEN None
    ELSE IF decoded < 0 THEN None
    ELSE IF decoded > MaxImageBytes THEN None
    ELSE stripped.return

\* AltTextGenerator._generate_alt_text_options: the suggestions of the try body
RichSuggestions ==
    << Suggestion("brief", "Descriptive image relevant to page content", 42, 85),
       Suggestion("moderate",
                  "Detailed description based on visual analysis and page context", 68, 90),
       Suggestion("detailed",
                  "Comprehensive description including key visual elements, colors, composition, and contextual relevance to surrounding content",
                  134, 88) >>

\* AltTextGenerator._generate_alt_text_options: the suggestion of its except branch
OptionsFallback ==
    << Suggestion("fallback", "Image description unavailable", 32, 50) >>

\* AltTextGenerator._build_context_prompt(context): only whether it raises matters,
\* the prompt is discarded
build_context_prompt(context) ==
    IF ~IsDict(context) THEN Raise("AttributeError")             \* context.get
    ELSE LET st == Get(context, "surrounding_text", None) IN
         IF Truthy(st) /\ ~IsStr(st) /\ "list" \notin DOMAIN st
         THEN Raise("TypeError")                                 \* [:200] or the f-string
         ELSE Return("prompt")

\* AltTextGenerator._generate_alt_text_options(image_data, context)
generate_alt_text_options(image_input, context) ==
    LET prompt == build_context_prompt(context) IN
    IF Raised(prompt) THEN prompt ELSE Return(RichSuggestions)

\* AltTextGenerator._analyze_accessibility_context(image_data, context)
analyze_accessibility_context ==
    [ is_decorative |-> FALSE, contains_text |-> FALSE,
      complexity_level |-> "moderate", recommended_approach |-> "descriptive",
      wcag_considerations |->
          << "Ensure description conveys essential information",
             "Consider if image contains important text that should be transcribed",
             "Evaluate if image is purely decorative" >> ]

\* AltTextGenerator._create_error_response(error_message)
create_error_response(error_message) ==
    [ success |-> FALSE,
      error   |-> error_message,
      alt_suggestions |->
          << Suggestion("fallback",
                        "Image description unavailable - please add manual alt text", 58, 0) >> ]

\* AltTextGenerator.analyze_image(image_data, context)
analyze_image(image_data, context, net) ==
    IF ~(IsStr(image_data) \/ IsRun(image_data))                 \* image_data.startswith
    THEN create_error_response("Analysis failed: AttributeError")
    ELSE
    LET image_input == IF IsStr(image_data) /\ StartsWith(image_data.str, "http")
                       THEN process_image_url(image_data.str, net)
                       ELSE process_base64_image(image_data)
    IN
    IF ~Truthy(image_input)
    THEN create_error_response("Invalid image format or size")
    ELSE
    LET alt_suggestions == generate_alt_text_options(image_input, context) IN
    IF Raised(alt_suggestions)
    THEN create_error_response("Analysis failed: " \o alt_suggestions.raise)
    ELSE [ success                |-> TRUE,
           alt_suggestions        |-> alt_suggestions.return,
           accessibility_analysis |-> analyze_accessibility_context,
           context_used           |-> context ]

(***************************************************************************)
(* server.py: the handlers registered with the mcp library                 *)
(***************************************************************************)
Tool(name, required) == [name |-> name, inputSchema |-> [type |-> "object", required |-> required]]

\* the listing, were it in another order than the declarations
ListToolsReordered ==
    << Tool("analyze_image_context", {"image_data"}),
       Tool("generate_alt_text", {"image_data"}),
       Tool("validate_alt_text_quality", {"alt_text", "image_data"}) >>

\* handle_list_tools()
handle_list_tools ==
    << Tool("generate_alt_text", {"image_data"}),
       Tool("analyze_image_context", {"image_data"}),
       Tool("validate_alt_text_quality", {"alt_text", "image_data"}) >>

TextContent(x) == [type |-> "text", text |-> JsonDumps(x)]

Min(a, b) == IF a < b THEN a ELSE b

\* len(x) of a JSON value: TypeError for None and numbers
HasLen(v) == IsStr(v) \/ IsDict(v) \/ "list" \in DOMAIN v
LenOf(v)  == IF IsStr(v) THEN Len(v.str)
             ELSE IF IsDict(v) THEN Cardinality(DOMAIN v.obj)
             ELSE Len(v.list)

\* the validation branch, were 125 characters already too long
ValidateLongFrom125(arguments) ==
    LET alt_text == Get(arguments, "alt_text", JStr("")) IN
         IF ~HasLen(alt_text) THEN Raise("TypeError")            \* len(alt_text)
         ELSE LET n == LenOf(alt_text)
                  note == IF ~Truthy(alt_text)
                          THEN << "Missing alt text", "Add descriptive alt text" >>
                          ELSE IF n < 10
                          THEN << "Alt text too brief", "Provide more descriptive detail" >>
                          ELSE IF n >= 125
                          THEN << "Alt text may be too long",
                                  "Consider condensing to essential information" >>
                          ELSE << >>
              IN Return(<< TextContent(
                    [ alt_text      |-> alt_text,
                      length        |-> n,
                      quality_score |-> IF Truthy(alt_text) THEN Min(50, n) ELSE 0,
                      issues        |-> IF note = << >> THEN << >> ELSE << note[1] >>,
                      suggestions   |-> IF note = << >> THEN << >> ELSE << note[2] >> ]) >>)

\* the validate_alt_text_quality branch of handle_call_tool (lines 310-340);
\* quality_score is held in fiftieths
validate_alt_text_quality(arguments) ==
    LET alt_text == Get(arguments, "alt_text", JStr("")) IN
         IF ~HasLen(alt_text) THEN Raise("TypeError")            \* len(alt_text)
         ELSE LET n == LenOf(alt_text)
                  note == IF ~Truthy(alt_text)
                          THEN << "Missing alt text", "Add descriptive alt text" >>
                          ELSE IF n < 10
                          THEN << "Alt text too brief", "Provide more descriptive detail" >>
                          ELSE IF n > 125
                          THEN << "Alt text may be too long",
                                  "Consider condensing to essential information" >>
                          ELSE << >>
              IN Return(<< TextContent(
                    [ alt_text      |-> alt_text,
                      length        |-> n,
                      quality_score |-> IF Truthy(alt_text) THEN Min(50, n) ELSE 0,
                      issues        |-> IF note = << >> THEN << >> ELSE << note[1] >>,
                      suggestions   |-> IF note = << >> THEN << >> ELSE << note[2] >> ]) >>)

\* handle_call_tool(name, arguments); quality_score is held in fiftieths
handle_call_tool(name, arguments, net) ==
    IF name = "generate_alt_text"
    THEN LET image_data == Get(arguments, "image_data", JStr(""))
             context    == Get(arguments, "context", JObj(EmptyDict))
         IN Return(<< TextContent(analyze_image(image_data, context, net)) >>)
    ELSE IF name = "analyze_image_context"
    THEN LET current_alt == Get(arguments, "current_alt", JStr("")) IN
         IF Truthy(current_alt) /\ ~HasLen(current_alt) THEN Raise("TypeError")
         ELSE Return(<< TextContent(
                analyze_accessibility_context @@
                [ current_alt_evaluation |->
                    [ text   |-> current_alt,
                      length |-> IF Truthy(current_alt) THEN LenOf(current_alt) ELSE 0,
                      quality_score |-> IF Truthy(current_alt) THEN 25 ELSE 0,
                      recommendations |->
                        << IF Truthy(current_alt)
                           THEN "Consider more descriptive language"
                           ELSE "Add descriptive alt text",
                           "Ensure essential information is conveyed",
                           "Keep under 125 characters when possible" >> ] ]) >>)
    ELSE IF name = "validate_alt_text_quality"
    THEN validate_alt_text_quality(arguments)
    ELSE Raise("ValueError: Unknown tool: " \o name)

\* the branch of handle_call_tool that runs for `name` (lines 272, 285, 310)
InvokedByFull(name) ==
    IF name \in {"generate_alt_text", "analyze_image_context", "validate_alt_text_quality"}
    THEN {name}
    ELSE {}

(***************************************************************************)
(* simple_server.py: main().  A line of input is a sequence of tokens: a   *)
(* run of whitespace, a JSON text, or text that is no JSON.                *)
(***************************************************************************)
WS(s)       == [ws |-> s]
JsonText(v) == JsonDumps(v)
BadText(s)  == [bad |-> s]

IsWS(tok)   == "ws" \in DOMAIN tok

\* str.strip(): the line without its leading and trailing whitespace
RECURSIVE LStrip(_)
LStrip(line) ==
    IF line # <<>> /\ IsWS(Head(line)) THEN LStrip(Tail(line)) ELSE line

RECURSIVE RStrip(_)
RStrip(line) ==
    IF line # <<>> /\ IsWS(line[Len(line)])
    THEN RStrip(SubSeq(line, 1, Len(line) - 1))
    ELSE line

Strip(line) == RStrip(LStrip(line))

\* json.loads(line): whitespace around the one JSON text is skipped; anything
\* else (no text, text that is no JSON, text after the JSON text) is refused
JsonLoads(line) ==
    LET s == Strip(line) IN
    IF Len(s) = 1 /\ "json" \in DOMAIN s[1]
    THEN Return(s[1].json)
    ELSE Raise("JSONDecodeError")

\* the loop body, were an exception of handle_message not caught inside the loop:
\* it ends main()
IterationUncaught(registry, line) ==
    IF Strip(line) = <<>>
    THEN [out |-> <<>>, log |-> <<>>, pc |-> "read", exit |-> "none"]
    ELSE
    LET decoded == JsonLoads(line) IN
    IF Raised(decoded)
    THEN [out |-> <<>>, log |-> <<"Invalid JSON">>, pc |-> "read", exit |-> "none"]
    ELSE
    LET handled == handle_message(registry, decoded.return) IN
    IF Raised(handled)
    THEN [out |-> <<>>, log |-> <<>>, pc |-> "done", exit |-> "crash"]
    ELSE [out |-> <<JsonDumps(handled.return)>>, log |-> <<>>, pc |-> "read", exit |-> "none"]

\* the loop body, were a blank line not skipped but answered with a parse error
IterationAnswersBlank(registry, line) ==
    LET decoded == JsonLoads(line) IN
    IF Raised(decoded)
    THEN IF Strip(line) = <<>>
         THEN [out |-> << JsonDumps([jsonrpc |-> "2.0", id |-> None,
                                     error |-> [code |-> -32700, message |-> "Parse error"]]) >>,
               log |-> <<>>, pc |-> "read", exit |-> "none"]
         ELSE [out |-> <<>>, log |-> <<"Invalid JSON">>, pc |-> "read", exit |-> "none"]
    ELSE
    LET handled == handle_message(registry, decoded.return) IN
    IF Raised(handled)
    THEN [out |-> <<>>, log |-> <<"Error handling message">>, pc |-> "read", exit |-> "none"]
    ELSE [out |-> <<JsonDumps(handled.return)>>, log |-> <<>>, pc |-> "read", exit |-> "none"]

\* the loop body, were tools/list and tools/call refused until an initialize
\* request has been read
IterationNeedsInitialize(registry, line) ==
    IF Strip(line) = <<>>
    THEN [out |-> <<>>, log |-> <<>>, pc |-> "read", exit |-> "none"]
    ELSE
    LET decoded == JsonLoads(line) IN
    IF Raised(decoded)
    THEN [out |-> <<>>, log |-> <<"Invalid JSON">>, pc |-> "read", exit |-> "none"]
    ELSE
    LET initialized ==
            \E i \in 1..Len(stdin) :
                /\ Strip(stdin[i]) # <<>>
                /\ Returned(JsonLoads(stdin[i]))
                /\ IsDict(JsonLoads(stdin[i]).return)
                /\ Get(JsonLoads(stdin[i]).return, "method", None) = JStr("initialize")
        handled ==
            IF /\ IsDict(decoded.return)
               /\ Get(decoded.return, "method", None) \in {JStr("tools/list"), JStr("tools/call")}
               /\ ~initialized
            THEN Return([jsonrpc |-> "2.0", id |-> Get(decoded.return, "id", None),
                         error |-> [code |-> -32002, message |-> "Server not initialized"]])
            ELSE handle_message(registry, decoded.return)
    IN
    IF Raised(handled)
    THEN [out |-> <<>>, log |-> <<"Error handling message">>, pc |-> "read", exit |-> "none"]
    ELSE [out |-> <<JsonDumps(handled.return)>>, log |-> <<>>, pc |-> "read", exit |-> "none"]

\* One pass of the while loop over a line input() returned: what is printed, what
\* is logged, and where control goes next.
Iteration(registry, line) ==
    IF Strip(line) = <<>>
    THEN [out |-> <<>>, log |-> <<>>, pc |-> "read", exit |-> "none"]      \* continue
    ELSE
    LET decoded == JsonLoads(line) IN
    IF Raised(decoded)
    THEN [out |-> <<>>, log |-> <<"Invalid JSON">>, pc |-> "read", exit |-> "none"]
    ELSE
    LET handled == handle_message(registry, decoded.return) IN
    IF Raised(handled)
    THEN [out |-> <<>>, log |-> <<"Error handling message">>, pc |-> "read", exit |-> "none"]
    ELSE [out |-> <<JsonDumps(handled.return)>>, log |-> <<>>, pc |-> "read", exit |-> "none"]

(***************************************************************************)
(* The requests the model feeds the servers.                               *)
(***************************************************************************)
MaxLines == 2       \* lines read by main() in one run

Field(key, values) == {EmptyDict} \cup {key :> v : v \in values}

Ids     == {JInt(1), JInt(2)}
Methods == {JStr("initialize"), JStr("tools/list"), JStr("tools/call"),
            JStr("bogus"), JStr("resources/list"), JStr("Initialize"), JInt(5)}

Titles   == {JStr("Smartphone Product Page"), JStr("Blog"), JStr("PRODUCTS"), JStr("Pro duct"),
             JInt(7), None}
Topics   == {JStr("ecommerce"), JStr("general")}
Contexts == {JStr("x")} \cup
            {JObj(t @@ p) : t \in Field("page_title", Titles), p \in Field("page_topic", Topics)}
Arguments == {JStr("x")} \cup
             {JObj(i @@ c) : i \in Field("image_data", {JStr("https://x/y.jpg")}),
                             c \in Field("context", Contexts)}
ToolNames == {JStr("generate_alt_text"), JStr("analyze_image_context")}
Params    == {None} \cup
             {JObj(n @@ a) : n \in Field("name", ToolNames), a \in Field("arguments", Arguments)}

\* every shape of decoded request: a JSON value that is no object, or an object
\* with or without each of id, method and params
Messages ==
    {JList(<<JInt(1)>>), JInt(7)} \cup
    {JObj(i @@ m @@ p) : i \in Field("id", Ids), m \in Field("method", Methods),
                         p \in Field("params", Params)}

\* the requests main() is fed: every id and method, and for tools/call one
\* params value per path through the handler
LoopParams ==
    { None,
      JObj("name" :> JStr("analyze_image_context")),
      JObj(("name" :> JStr("generate_alt_text")) @@
           ("arguments" :> JObj(("image_data" :> JStr("https://x/y.jpg")) @@
                                ("context" :> JObj("page_topic" :> JStr("ecommerce")))))),
      JObj(("name" :> JStr("generate_alt_text")) @@
           ("arguments" :> JObj("context" :> JStr("x")))) }

LoopMethods ==
    {JStr("initialize"), JStr("tools/list"), JStr("tools/call"), JStr("bogus"), JInt(5)}

LoopMessages ==
    {JList(<<JInt(1)>>)} \cup
    {JObj(i @@ m) : i \in Field("id", Ids), m \in Field("method", LoopMethods)} \cup
    {JObj(i @@ ("method" :> JStr("tools/call")) @@ ("params" :> p)) :
        i \in Field("id", Ids), p \in LoopParams}

Lines ==
    { <<>>, <<WS(" ")>>, <<WS(" "), WS("\t")>>,
      <<BadText("{oops")>>, <<WS(" "), BadText("{oops")>> } \cup
    { <<JsonText(v)>> : v \in LoopMessages } \cup
    { <<WS(" "), JsonText(v), WS(" ")>> : v \in {JObj(("id" :> JInt(1)) @@ ("method" :> JStr("tools/list")))} } \cup
    { <<JsonText(v), JsonText(v)>> : v \in {JObj(("id" :> JInt(1)) @@ ("method" :> JStr("initialize")))} }

(***************************************************************************)
(* Spec: main() of simple_server.py.                                       *)
(***************************************************************************)
NoMessage == [none |-> TRUE]

Init ==
    /\ tools = SimpleTools
    /\ pc = "read"
    /\ exit = "none"
    /\ stdin = <<>>
    /\ stdout = <<>>
    /\ replies = <<>>
    /\ log = <<>>
    /\ message = NoMessage
    /\ response = NoMessage
    /\ call = NoMessage
    /\ result = NoMessage
    /\ invoked = {}

\* input() returned `line`; the loop body runs on it
ReadLine(line) ==
    /\ pc = "read"
    /\ Len(stdin) < MaxLines
    /\ LET it == Iteration(tools, line) IN
        /\ stdin' = Append(stdin, line)
        /\ stdout' = stdout \o it.out
        /\ replies' = Append(replies, it.out)
        /\ log' = log \o it.log
        /\ pc' = it.pc
        /\ exit' = it.exit
    /\ UNCHANGED <<tools, handlerVars>>

IsBlank(line)   == Strip(line) = <<>>
Decodes(line)   == ~IsBlank(line) /\ Returned(JsonLoads(line))
Decoded(line)   == JsonLoads(line).return

\* line 167: an empty or whitespace-only line
ReadBlank == \E line \in Lines : IsBlank(line) /\ ReadLine(line)

\* line 175: a line json.loads refuses
ReadInvalidJson == \E line \in Lines : ~IsBlank(line) /\ ~Decodes(line) /\ ReadLine(line)

\* lines 171-173: a line that decodes and whose handling returns a response
ReadRequest ==
    \E line \in Lines :
        /\ Decodes(line) /\ Returned(handle_message(tools, Decoded(line)))
        /\ ReadLine(line)

\* line 177: a line that decodes and whose handling raises
ReadFaulty ==
    \E line \in Lines :
        /\ Decodes(line) /\ Raised(handle_message(tools, Decoded(line)))
        /\ ReadLine(line)

\* line 180: input() raises EOFError
Eof ==
    /\ pc = "read"
    /\ pc' = "done"
    /\ exit' = "eof"
    /\ UNCHANGED <<tools, stdin, stdout, replies, log, handlerVars>>

\* line 183: KeyboardInterrupt, taken where main() spends its time, waiting for
\* input
Interrupt ==
    /\ pc = "read"
    /\ pc' = "done"
    /\ exit' = "interrupt"
    /\ UNCHANGED <<tools, stdin, stdout, replies, log, handlerVars>>

Next ==
    \/ ReadBlank
    \/ ReadInvalidJson
    \/ ReadRequest
    \/ ReadFaulty
    \/ Eof
    \/ Interrupt

Spec == Init /\ [][Next]_vars

(***************************************************************************)
(* SpecHandlers: the handlers of both variants, called request by request. *)
(* A request is received, then handled; the next request is received once  *)
(* the handler of the one before has returned.                             *)
(***************************************************************************)
Pending == [pending |-> TRUE]

\* what the GET of _process_image_url does
Nets ==
    {[error |-> "HTTPError"]} \cup
    [content_type : {"image/png", "text/html", "image/svg+xml", "application/octet-stream; name=a.png"},
     size : {0, 1024, MaxImageBytes, MaxImageBytes + 1}]

RECURSIVE Repeat(_, _)
Repeat(s, n) ==
    IF n = 0 THEN ""
    ELSE LET half == Repeat(s, n \div 2) IN
         half \o half \o (IF n % 2 = 1 THEN s ELSE "")

ImageData ==
    { JStr("https://x/y.jpg"), JStr("aGk="), JStr("a"), JStr("data:image/png;base64,aGk="),
      JStr("data:aGk="), JInt(5), JStr("data:image/png;base64,aGk"), JStr("!!!!"),
      JRun("A", 4 * (MaxImageBytes \div 3)), JRun("A", 4 * (MaxImageBytes \div 3 + 1)) }

FullContexts ==
    { JObj(EmptyDict), JStr("x"), JObj("page_topic" :> JStr("ecommerce")),
      JObj("surrounding_text" :> JInt(3)) }

AltTexts ==
    { JStr(""), JStr("Hi"), JStr(Repeat("a", 9)), JStr(Repeat("a", 10)), JStr(Repeat("a", 49)),
      JStr(Repeat("a", 50)), JStr(Repeat("a", 125)), JStr(Repeat("a", 126)), JInt(5), None,
      JStr("Oh"), JStr("A red car."), JList(<< >>), JList(<< JStr("a"), JStr("b") >>) }

FullCalls ==
    { [name |-> "generate_alt_text", arguments |-> JObj(i @@ c), net |-> n] :
        i \in Field("image_data", ImageData), c \in Field("context", FullContexts), n \in Nets }
    \cup
    { [name |-> "analyze_image_context", arguments |-> JObj(i @@ a), net |-> [error |-> "HTTPError"]] :
        i \in Field("image_data", ImageData),
        a \in Field("current_alt", {JStr(""), JStr("A cat"), JInt(5), None}) }
    \cup
    { [name |-> "validate_alt_text_quality", arguments |-> JObj(i @@ a), net |-> [error |-> "HTTPError"]] :
        i \in Field("image_data", {JStr("aGk=")}), a \in Field("alt_text", AltTexts) }
    \cup
    { [name |-> n, arguments |-> JObj(a), net |-> [error |-> "HTTPError"]] :
        n \in {"unknown_tool", "", "tools/call"}, a \in Field("image_data", {JStr("aGk=")}) }

InitHandlers == Init

Idle == message = NoMessage /\ call = NoMessage

\* a request reaches the minimal variant's handle_message
ReceiveMessage ==
    /\ Idle
    /\ \E m \in Messages : message' = m
    /\ response' = Pending
    /\ call' = NoMessage
    /\ result' = NoMessage
    /\ invoked' = {}
    /\ UNCHANGED <<tools, loopVars>>

\* SimpleAltTextServer.handle_message runs on it
HandleMessage ==
    /\ response = Pending
    /\ response' = handle_message(tools, message)
    /\ invoked' = InvokedBySimple(message)
    /\ UNCHANGED <<tools, loopVars, message, call, result>>

\* the mcp library hands a tools/call request to the full variant
ReceiveCall ==
    /\ Idle
    /\ \E c \in FullCalls : call' = c
    /\ result' = Pending
    /\ message' = NoMessage
    /\ response' = NoMessage
    /\ invoked' = {}
    /\ UNCHANGED <<tools, loopVars>>

\* handle_call_tool runs on it
CallTool ==
    /\ result = Pending
    /\ result' = handle_call_tool(call.name, call.arguments, call.net)
    /\ invoked' = InvokedByFull(call.name)
    /\ UNCHANGED <<tools, loopVars, message, response, call>>

\* the mcp library asks the full variant for its tools: handle_list_tools runs
ListTools ==
    /\ Idle
    /\ call' = [list |-> TRUE]
    /\ result' = Return(handle_list_tools)
    /\ message' = NoMessage
    /\ response' = NoMessage
    /\ invoked' = {}
    /\ UNCHANGED <<tools, loopVars>>

\* the handler has returned; the request and what was made of it are dropped
Finish ==
    /\ ~Idle
    /\ response # Pending
    /\ result # Pending
    /\ message' = NoMessage
    /\ response' = NoMessage
    /\ call' = NoMessage
    /\ result' = NoMessage
    /\ invoked' = {}
    /\ UNCHANGED <<tools, loopVars>>

NextHandlers ==
    \/ ReceiveMessage
    \/ HandleMessage
    \/ ReceiveCall
    \/ CallTool
    \/ ListTools
    \/ Finish

SpecHandlers == InitHandlers /\ [][NextHandlers]_vars

(***************************************************************************)
(* Properties.  Of a decoded request:                                      *)
(***************************************************************************)
MethodOf(m) == Get(m, "method", None)
IdOf(m)     == Get(m, "id", None)
HasId(m)    == IsDict(m) /\ "id" \in DOMAIN m.obj

\* tools/call whose params is an object (or absent, the handler's default)
IsToolCall(m) ==
    /\ IsDict(m)
    /\ MethodOf(m) = JStr("tools/call")
ParamsOf(m)    == Get(m, "params", JObj(EmptyDict))
NamesTool(m, name) ==
    /\ IsToolCall(m)
    /\ IsDict(ParamsOf(m))
    /\ Get(ParamsOf(m), "name", None) = JStr(name)

\* the payload a tools/call response carries: its one text item, decoded
WellFormedResult(r) ==
    /\ "result" \in DOMAIN r
    /\ "error" \notin DOMAIN r
    /\ Len(r.result.content) = 1
    /\ r.result.content[1].type = "text"
PayloadOf(r) == r.result.content[1].text.json

\* C1: every line read that decodes to a request carrying an id has exactly one
\* response line written for it, and that line carries the request's id.
C1_OneResponsePerRequest ==
    \A i \in 1..Len(stdin) :
        (Decodes(stdin[i]) /\ HasId(Decoded(stdin[i])))
            => /\ Len(replies[i]) = 1
               /\ replies[i][1].json.id = IdOf(Decoded(stdin[i]))

\* C2: a request whose method is a string other than initialize, tools/list and
\* tools/call is answered with an error response of code -32601 that echoes the
\* request's id and names the method in its message, and carries no result.
KnownMethods == {"initialize", "tools/list", "tools/call"}

C2_UnknownMethodError ==
    (/\ response # Pending
     /\ IsDict(message)
     /\ IsStr(MethodOf(message))
     /\ MethodOf(message).str \notin KnownMethods)
        => /\ Returned(response)
           /\ "result" \notin DOMAIN response.return
           /\ "error" \in DOMAIN response.return
           /\ response.return.error.code = -32601
           /\ response.return.id = IdOf(message)
           /\ Contains(MethodOf(message).str, response.return.error.message)

C2_Witness ==
    /\ IsDict(message)
    /\ MethodOf(message) = JStr("bogus")
    /\ IdOf(message) = JInt(2)
    /\ Returned(response)
    /\ response.return.error.code = -32601

\* C3: a tools/call that names a registered tool is always answered with a
\* well-formed result (one text item holding the payload), whatever the arguments:
\* never with an error response, never with no response.
C3_KnownToolAlwaysResult ==
    /\ (response # Pending /\ NamesTool(message, "generate_alt_text"))
          => (Returned(response) /\ WellFormedResult(response.return))
    /\ (result # Pending /\ "name" \in DOMAIN call
            /\ \E i \in 1..Len(handle_list_tools) : handle_list_tools[i].name = call.name)
          => (Returned(result) /\ Len(result.return) = 1 /\ result.return[1].type = "text")

\* C4: a tools/call whose params.name is missing or names no registered tool is
\* answered with exactly one error response that echoes the id (the minimal
\* variant's -32601 naming tools/call, the full variant's unknown-tool fault),
\* and no tool handler runs.
C4_UnknownToolError ==
    /\ (response # Pending /\ IsToolCall(message) /\ ~NamesTool(message, "generate_alt_text"))
          => /\ Returned(response)
             /\ "result" \notin DOMAIN response.return
             /\ "error" \in DOMAIN response.return
             /\ response.return.error.code = -32601
             /\ response.return.error.message = "Method not found: tools/call"
             /\ response.return.id = IdOf(message)
             /\ invoked = {}
    /\ (result # Pending /\ "name" \in DOMAIN call
            /\ ~\E i \in 1..Len(handle_list_tools) : handle_list_tools[i].name = call.name)
          => /\ Raised(result)
             /\ StartsWith(result.raise, "ValueError: Unknown tool")
             /\ invoked = {}

\* C5: every suggestion a tool handler returns has length equal to the number of
\* characters of its text.
LengthsMatch(suggestions) ==
    \A i \in 1..Len(suggestions) : suggestions[i].length = Len(suggestions[i].text)

C5_LengthIsCharacterCount ==
    /\ (NamesTool(message, "generate_alt_text") /\ Returned(response)
            /\ WellFormedResult(response.return))
          => LengthsMatch(PayloadOf(response.return).alt_suggestions)
    /\ ("name" \in DOMAIN call /\ call.name = "generate_alt_text" /\ Returned(result))
          => LengthsMatch(result.return[1].text.json.alt_suggestions)

\* C6: a tools/call to a registered tool whose arguments lack a key the tool's
\* schema requires is not answered with a success: true result.
RequiredKeys(registry, name) ==
    UNION { registry[i].inputSchema.required : i \in {j \in 1..Len(registry) : registry[j].name = name} }

ArgumentsOf(m) == Get(ParamsOf(m), "arguments", JObj(EmptyDict))

C6_RequiredKeysEnforced ==
    (/\ response # Pending
     /\ NamesTool(message, "generate_alt_text")
     /\ IsDict(ArgumentsOf(message))
     /\ ~(RequiredKeys(tools, "generate_alt_text") \subseteq DOMAIN ArgumentsOf(message).obj))
        => ~(/\ Returned(response)
             /\ WellFormedResult(response.return)
             /\ PayloadOf(response.return).success = TRUE)

\* C7: no line read ends main(): a line that is no JSON gets no response line,
\* and after it, or after a request whose handling raised, the next line is read
\* and handled as it would be on its own; main() ends only on end of input or an
\* interrupt, by returning.
IsWhitespaceOnly(line) == \A i \in 1..Len(line) : IsWS(line[i])
IsInvalidJson(line)    == ~IsWhitespaceOnly(line) /\ Raised(JsonLoads(line))
HandlingRaises(line)   == Decodes(line) /\ Raised(handle_message(SimpleTools, Decoded(line)))

\* what a fresh server prints for the line alone
Alone(line) ==
    IF Decodes(line) /\ Returned(handle_message(SimpleTools, Decoded(line)))
    THEN << JsonDumps(handle_message(SimpleTools, Decoded(line)).return) >>
    ELSE << >>

C7_NoLineIsFatal ==
    /\ pc \in {"read", "done"}
    /\ pc = "read" <=> exit = "none"
    /\ pc = "done" => exit \in {"eof", "interrupt"}
    /\ \A i \in 1..Len(stdin) : IsInvalidJson(stdin[i]) => replies[i] = << >>
    /\ \A i \in 1..Len(stdin) : replies[i] = Alone(stdin[i])

C7_Witness ==
    /\ Len(stdin) = 2
    /\ IsInvalidJson(stdin[1]) \/ HandlingRaises(stdin[1])
    /\ Len(replies[2]) = 1
    /\ pc = "done"
    /\ exit = "eof"

\* C8: a line that is empty or holds only whitespace writes no line, and what is
\* written for a sequence of lines is what is written for the sequence without
\* its blank lines.
RECURSIVE WithoutBlank(_)
WithoutBlank(lines) ==
    IF lines = << >> THEN << >>
    ELSE IF IsWhitespaceOnly(Head(lines)) THEN WithoutBlank(Tail(lines))
    ELSE << Head(lines) >> \o WithoutBlank(Tail(lines))

RECURSIVE Written(_)
Written(lines) ==
    IF lines = << >> THEN << >>
    ELSE Iteration(SimpleTools, Head(lines)).out \o Written(Tail(lines))

C8_BlankLinesIgnored ==
    /\ \A i \in 1..Len(stdin) : IsWhitespaceOnly(stdin[i]) => replies[i] = << >>
    /\ stdout = Written(WithoutBlank(stdin))

C8_Witness ==
    /\ Len(stdin) = 2
    /\ IsWhitespaceOnly(stdin[1])
    /\ Len(stdin[1]) > 0
    /\ Len(replies[2]) = 1
    /\ stdout = replies[2]

\* C9: whatever requests were handled, the registry is as declared, and every
\* tools/list response lists the declared tools in their order of declaration:
\* one tool in the minimal variant, three in the full variant.
NamesOf(listing) == [i \in 1..Len(listing) |-> listing[i].name]

C9_RegistryFixed ==
    /\ tools = SimpleTools
    /\ (IsDict(message) /\ MethodOf(message) = JStr("tools/list") /\ response # Pending)
          => /\ Returned(response)
             /\ response.return.result.tools = SimpleTools
             /\ NamesOf(response.return.result.tools) = << "generate_alt_text" >>
    /\ (call = [list |-> TRUE])
          => /\ Returned(result)
             /\ NamesOf(result.return) =
                    << "generate_alt_text", "analyze_image_context", "validate_alt_text_quality" >>

C9_Witness ==
    /\ IsDict(message)
    /\ MethodOf(message) = JStr("tools/list")
    /\ IdOf(message) = JInt(1)
    /\ Returned(response)
    /\ Len(response.return.result.tools) = 1

\* C10: every response handle_message returns holds exactly one of result and
\* error, and the id of the request.
C10_ResultXorError ==
    Returned(response)
        => /\ ("result" \in DOMAIN response.return) # ("error" \in DOMAIN response.return)
           /\ "id" \in DOMAIN response.return
           /\ response.return.id = IdOf(message)

C10_Witness ==
    /\ NamesTool(message, "generate_alt_text")
    /\ IdOf(message) = JInt(2)
    /\ Returned(response)
    /\ "result" \in DOMAIN response.return
    /\ "error" \notin DOMAIN response.return

\* C11: generate_alt_text of the minimal variant returns the product suggestions
\* exactly when context.page_title contains "product" in any letter case or
\* context.page_topic is "ecommerce", and the generic suggestions otherwise, also
\* when context or both keys are absent; both times with success: true and three
\* suggestions, brief, moderate, detailed.
UpperOf(c) ==
    IF \E i \in 1..26 : CharAt(LowerChars, i) = c
    THEN CharAt(UpperChars, CHOOSE i \in 1..26 : CharAt(LowerChars, i) = c)
    ELSE c

ContainsAnyCase(sub, s) ==
    \E i \in 1..(Len(s) - Len(sub) + 1) :
        \A k \in 1..Len(sub) : CharAt(s, i + k - 1) \in {CharAt(sub, k), UpperOf(CharAt(sub, k))}

ContextOf(m) == Get(ArgumentsOf(m), "context", JObj(EmptyDict))

\* a generate_alt_text call whose arguments and context are objects (or absent)
HasContext(m) ==
    /\ NamesTool(m, "generate_alt_text")
    /\ IsDict(ArgumentsOf(m))
    /\ IsDict(ContextOf(m))

ProductSignal(m) ==
    \/ /\ "page_title" \in DOMAIN ContextOf(m).obj
       /\ IsStr(ContextOf(m).obj["page_title"])
       /\ ContainsAnyCase("product", ContextOf(m).obj["page_title"].str)
    \/ /\ "page_topic" \in DOMAIN ContextOf(m).obj
       /\ ContextOf(m).obj["page_topic"] = JStr("ecommerce")

TypesOf(suggestions) == [i \in 1..Len(suggestions) |-> suggestions[i].type]

C11_ProductIffSignal ==
    (response # Pending /\ HasContext(message))
        => /\ Returned(response)
           /\ WellFormedResult(response.return)
           /\ PayloadOf(response.return).success = TRUE
           /\ TypesOf(PayloadOf(response.return).alt_suggestions) = << "brief", "moderate", "detailed" >>
           /\ PayloadOf(response.return).alt_suggestions =
                  IF ProductSignal(message) THEN ProductSuggestions ELSE GenericSuggestions

\* C12: validate_alt_text_quality is a function of the length n of alt_text only:
\* quality_score is 0 for n = 0 and min(1, n/50) otherwise (held in fiftieths:
\* min(50, n)); n = 0 reports "Missing alt text", 1 <= n <= 9 "Alt text too
\* brief", n >= 126 "Alt text may be too long", each with its suggestion, and
\* 10 <= n <= 125 reports nothing; never more than one issue, and as many
\* suggestions as issues.
IsValidation(c) == c # NoMessage /\ "name" \in DOMAIN c /\ c.name = "validate_alt_text_quality"

AltTextOf(c) == Get(c.arguments, "alt_text", JStr(""))

ScoreFor(n) == IF n = 0 THEN 0 ELSE IF n >= 50 THEN 50 ELSE n

IssuesFor(n) ==
    IF n = 0 THEN << "Missing alt text" >>
    ELSE IF n \in 1..9 THEN << "Alt text too brief" >>
    ELSE IF n >= 126 THEN << "Alt text may be too long" >>
    ELSE << >>

SuggestionsFor(n) ==
    IF n = 0 THEN << "Add descriptive alt text" >>
    ELSE IF n \in 1..9 THEN << "Provide more descriptive detail" >>
    ELSE IF n >= 126 THEN << "Consider condensing to essential information" >>
    ELSE << >>

ValidationOf(r) == r.return[1].text.json

C12_QualityByLength ==
    (IsValidation(call) /\ result # Pending /\ HasLen(AltTextOf(call)))
        => /\ Returned(result)
           /\ LET n == LenOf(AltTextOf(call))
                  v == ValidationOf(result)
              IN /\ v.quality_score = ScoreFor(n)
                 /\ v.issues = IssuesFor(n)
                 /\ v.suggestions = SuggestionsFor(n)
                 /\ Len(v.issues) <= 1
                 /\ Len(v.issues) = Len(v.suggestions)

\* a text of exactly 125 characters has been validated and drew no issue
C12_Witness ==
    /\ IsValidation(call)
    /\ result # Pending
    /\ HasLen(AltTextOf(call))
    /\ LenOf(AltTextOf(call)) = 125
    /\ Returned(result)
    /\ ValidationOf(result).issues = << >>
    /\ ValidationOf(result).quality_score = 50

\* C13: in the full variant every failure to normalize the image input (the URL
\* fetch fails or times out, the content type names no allow-listed format, inline
\* data cannot be decoded, the decoded size is over 5 MiB) makes the helper return
\* None, and analyze_image then returns the error envelope (success: false, an
\* error string, one "fallback" suggestion of confidence 0) instead of raising;
\* success: true is returned only when normalization gave a non-empty image input.
IsGenerate(c) == c # NoMessage /\ "name" \in DOMAIN c /\ c.name = "generate_alt_text"

ImageDataOf(c) == Get(c.arguments, "image_data", JStr(""))

IsText(v) == IsStr(v) \/ IsRun(v)

IsUrl(v) == IsStr(v) /\ StartsWith(v.str, "http")

\* the helper analyze_image hands the image input to, applied to the request
Normalized(c) ==
    IF IsUrl(ImageDataOf(c))
    THEN process_image_url(ImageDataOf(c).str, c.net)
    ELSE process_base64_image(ImageDataOf(c))

NamesNoFormat(content_type) ==
    \A f \in {"jpeg", "jpg", "png", "gif", "webp"} : ~Contains(f, content_type)

\* the inline payload: what follows the comma of a data: URL, else all of it
HasDataPrefix(v) == IsStr(v) /\ StartsWith(v.str, "data:")

InlineDecodedLen(v) ==
    IF IsRun(v) THEN B64DecodedLenOfRun(v.run[1], v.run[2])
    ELSE IF ~HasDataPrefix(v) THEN B64DecodedLen(v.str)
    ELSE IF Raised(AfterFirstComma(v.str)) THEN -1
    ELSE B64DecodedLen(AfterFirstComma(v.str).return)

FetchFails(c)   == IsUrl(ImageDataOf(c)) /\ "error" \in DOMAIN c.net
TypeRefused(c)  == IsUrl(ImageDataOf(c)) /\ "error" \notin DOMAIN c.net
                                         /\ NamesNoFormat(c.net.content_type)
UrlTooBig(c)    == IsUrl(ImageDataOf(c)) /\ "error" \notin DOMAIN c.net
                                         /\ c.net.size > 5 * 1024 * 1024
Undecodable(c)  == IsText(ImageDataOf(c)) /\ ~IsUrl(ImageDataOf(c))
                                          /\ InlineDecodedLen(ImageDataOf(c)) < 0
InlineTooBig(c) == IsText(ImageDataOf(c)) /\ ~IsUrl(ImageDataOf(c))
                                          /\ InlineDecodedLen(ImageDataOf(c)) > 5 * 1024 * 1024

NormalizationFails(c) ==
    FetchFails(c) \/ TypeRefused(c) \/ UrlTooBig(c) \/ Undecodable(c) \/ InlineTooBig(c)

IsErrorEnvelope(r) ==
    /\ DOMAIN r = {"success", "error", "alt_suggestions"}
    /\ r.success = FALSE
    /\ Len(r.error) > 0
    /\ Len(r.alt_suggestions) = 1
    /\ r.alt_suggestions[1].type = "fallback"
    /\ r.alt_suggestions[1].confidence = 0

AnalysisOf(r) == r.return[1].text.json

C13_WitnessFetch ==
    IsGenerate(call) /\ result # Pending /\ FetchFails(call)
        /\ IsErrorEnvelope(AnalysisOf(result))
C13_WitnessType ==
    IsGenerate(call) /\ result # Pending /\ TypeRefused(call)
        /\ IsErrorEnvelope(AnalysisOf(result))
C13_WitnessUndecodable ==
    IsGenerate(call) /\ result # Pending /\ Undecodable(call)
        /\ IsErrorEnvelope(AnalysisOf(result))
C13_WitnessInlineTooBig ==
    IsGenerate(call) /\ result # Pending /\ InlineTooBig(call)
        /\ IsErrorEnvelope(AnalysisOf(result))
C13_WitnessSuccess ==
    IsGenerate(call) /\ result # Pending /\ AnalysisOf(result).success = TRUE
        /\ IsRun(ImageDataOf(call))

IsRequestFor(line, methods) ==
    /\ Decodes(line)
    /\ IsDict(Decoded(line))
    /\ MethodOf(Decoded(line)) \in methods

C14_ResponseByRequestAlone ==
    /\ tools = SimpleTools
    /\ Len(replies) = Len(stdin)
    /\ \A i \in 1..Len(stdin) : replies[i] = Alone(stdin[i])
    /\ \A i, j \in 1..Len(stdin) : stdin[i] = stdin[j] => replies[i] = replies[j]

\* a tools request has been answered with no initialize before it, and answered
\* the same when it was repeated
C14_Witness ==
    /\ Len(stdin) = 2
    /\ IsRequestFor(stdin[1], {JStr("tools/list"), JStr("tools/call")})
    /\ Len(replies[1]) = 1
    /\ stdin[2] = stdin[1]
    /\ replies[2] = replies[1]

\* a tools request has been answered after an initialize
C14_WitnessAfterInitialize ==
    /\ Len(stdin) = 2
    /\ IsRequestFor(stdin[1], {JStr("initialize")})
    /\ Len(replies[1]) = 1
    /\ IsRequestFor(stdin[2], {JStr("tools/list"), JStr("tools/call")})
    /\ Len(replies[2]) = 1

====
